---- MODULE Spec2Model ----
(***************************************************************************)
(* Token subsystem of the calculations backend: app/auth/jwt.py            *)
(* (create_token, decode_token, create_access_token, decode_access_token,  *)
(* get_current_user) together with the revocation store it reads and the   *)
(* user table it queries.                                                  *)
(*                                                                         *)
(* Time is counted in whole seconds, as the exp / iat claims are.  An      *)
(* encoded token is the record of its claims plus the key that signed it:  *)
(* a signature verifies under a key exactly when that key signed it.       *)
(***************************************************************************)
EXTENDS Integers, FiniteSets, Sequences, TLC

VARIABLES settings, now, ticks, issued, nextJti, blacklist, users, last, failed,
          calls, accounts, reply, hashes, check, calculations

vars == <<settings, now, ticks, issued, nextJti, blacklist, users, last, failed,
          calls, accounts, reply, hashes, check, calculations>>

(***************************************************************************)
(* Bounds of the model.                                                    *)
(***************************************************************************)
MaxIssued == 1
MaxTicks == 2

(***************************************************************************)
(* Configuration (app.core.config settings read by jwt.py).                *)
(***************************************************************************)
ACCESS_TOKEN_EXPIRE_MINUTES == 30
REFRESH_TOKEN_EXPIRE_DAYS == 7

\* Key material an installation can be configured with; "kx" is a key that
\* is never configured (an outsider's key).
KeyValues == {"k1", "k2", "k3"}
OutsiderKey == "kx"

\* The ways the three secrets can coincide or differ.
SettingsChoices ==
    { [JWT_SECRET_KEY |-> "k1", JWT_REFRESH_SECRET_KEY |-> r, SECRET_KEY |-> s] :
        r \in {"k1", "k2"}, s \in KeyValues } \
    { [JWT_SECRET_KEY |-> "k1", JWT_REFRESH_SECRET_KEY |-> "k1", SECRET_KEY |-> "k3"] }

\* TokenType enum values (the .value of each member).
ACCESS == "access"
REFRESH == "refresh"
TokenType == {ACCESS, REFRESH}

\* timedelta(minutes=m) and timedelta(days=d), in seconds.
timedelta_minutes(m) == 60 * m
timedelta_days(d) == 86400 * d

(***************************************************************************)
(* Subjects: a str or a UUID.  str(UUID) is the canonical text of the UUID.*)
(***************************************************************************)
UUIDs == {1, 2, 3}
UuidText == [u \in UUIDs |-> CASE u = 1 -> "uuid-1" [] u = 2 -> "uuid-2" [] OTHER -> "uuid-3"]

StrSubject(s) == [isUUID |-> FALSE, uuid |-> 0, text |-> s]
UuidSubject(u) == [isUUID |-> TRUE, uuid |-> u, text |-> ""]

Subjects == {UuidSubject(1), UuidSubject(2), StrSubject("uuid-3")}

\* str(user_id)
str(s) == IF s.isUUID THEN UuidText[s.uuid] ELSE s.text

(***************************************************************************)
(* Optional arguments: None or a value.                                    *)
(***************************************************************************)
None == [given |-> FALSE, v |-> 0]
Some(x) == [given |-> TRUE, v |-> x]

\* expires_delta values tried, in seconds.
ExpiresDeltas == {None, Some(0), Some(1), Some(-1)}

\* Python truthiness of an Optional[timedelta] / Optional[int]:
\* None and a zero value are both falsy.
Truthy(opt) == opt.given /\ opt.v # 0

(***************************************************************************)
(* Tokens.  wf = FALSE is a string that is no JWT at all.                  *)
(* type = "" and jti = 0 stand for an absent claim.                        *)
(***************************************************************************)
NoToken == [wf |-> FALSE, key |-> "", sub |-> "", type |-> "", exp |-> 0, iat |-> 0, jti |-> 0]

\* jwt.encode(to_encode, secret, algorithm)
jwt_encode(claims, secret) ==
    [wf |-> TRUE, key |-> secret, sub |-> claims.sub, type |-> claims.type,
     exp |-> claims.exp, iat |-> claims.iat, jti |-> claims.jti]


\* What create_token / create_access_token put in to_encode.
Claims(sub, type, exp, iat, jti) ==
    [sub |-> sub, type |-> type, exp |-> exp, iat |-> iat, jti |-> jti]

\* Token strings that no issuing function of this module produced: a string
\* that is not a JWT, and a well-formed access-looking token signed with a
\* key that is not configured.
Forged ==
    { NoToken,
      [wf |-> TRUE, key |-> OutsiderKey, sub |-> "uuid-1", type |-> ACCESS,
       exp |-> timedelta_days(365), iat |-> 0, jti |-> 1] }

(***************************************************************************)
(* Results of a call: a returned value (kind "ok"), an HTTPException       *)
(* (kind "http") or any other exception (kind "exc", detail = its class).  *)
(* consulted: the revocation store was asked about the token's jti.        *)
(***************************************************************************)
NoUser == [id |-> 0, is_active |-> FALSE]

Ok(payload, consulted) ==
    [kind |-> "ok", status |-> 200, detail |-> "", payload |-> payload,
     consulted |-> consulted, user |-> NoUser]

HTTPException(status_code, detail, consulted) ==
    [kind |-> "http", status |-> status_code, detail |-> detail, payload |-> NoToken,
     consulted |-> consulted, user |-> NoUser]

Raised(class, consulted) ==
    [kind |-> "exc", status |-> 0, detail |-> class, payload |-> NoToken,
     consulted |-> consulted, user |-> NoUser]

OkUser(user) ==
    [kind |-> "ok", status |-> 200, detail |-> "", payload |-> NoToken,
     consulted |-> TRUE, user |-> user]

(***************************************************************************)
(* create_token                                                            *)
(***************************************************************************)
\* The expire computation of create_token at time t.
create_token_expire(token_type, expires_delta, t) ==
    IF Truthy(expires_delta)
    THEN t + expires_delta.v
    ELSE IF token_type = ACCESS
         THEN t + timedelta_minutes(ACCESS_TOKEN_EXPIRE_MINUTES)
         ELSE t + timedelta_days(REFRESH_TOKEN_EXPIRE_DAYS)

\* One secret used for both token types.
SecretFor_single(token_type) == settings.JWT_SECRET_KEY

\* The secret selected for a token type (create_token and decode_token).
SecretFor(token_type) ==
    IF token_type = ACCESS THEN settings.JWT_SECRET_KEY
    ELSE settings.JWT_REFRESH_SECRET_KEY

\* create_token without the isinstance(user_id, UUID) conversion.
create_token_no_str(user_id, token_type, expires_delta, t, jti) ==
    LET expire == create_token_expire(token_type, expires_delta, t)
    IN  jwt_encode(Claims(user_id.text, token_type, expire, t, jti), SecretFor(token_type))

\* create_token(user_id, token_type, expires_delta) called at time t, with
\* jti the value secrets.token_hex(16) returns.
create_token(user_id, token_type, expires_delta, t, jti) ==
    LET expire == create_token_expire(token_type, expires_delta, t)
        sub == IF user_id.isUUID THEN UuidText[user_id.uuid] ELSE user_id.text
    IN  jwt_encode(Claims(sub, token_type, expire, t, jti), SecretFor(token_type))

(***************************************************************************)
(* create_access_token (the single-secret helper)                          *)
(***************************************************************************)
\* data dictionaries passed by callers: {"sub": ...} alone, or with a
\* "type" entry as well.  No caller passes a "jti".
DataChoices ==
    { [sub |-> "uuid-1", type |-> ""], [sub |-> "uuid-1", type |-> ACCESS] }

\* expires_minutes values tried, in sixtieths of a minute (1/60 minute is
\* the 1-second lifetime of the demo script), so that
\* timedelta(minutes=expires_minutes) is v seconds.
ExpiresMinutes == {None, Some(0), Some(1), Some(-1)}

create_access_token(data, expires_minutes, t) ==
    LET expire == IF Truthy(expires_minutes)
                  THEN t + expires_minutes.v
                  ELSE t + timedelta_minutes(ACCESS_TOKEN_EXPIRE_MINUTES)
    IN  jwt_encode(Claims(data.sub, data.type, expire, t, 0), settings.SECRET_KEY)

(***************************************************************************)
(* jose.jwt.decode(token, key, algorithms, options={"verify_exp": ...})    *)
(* at time t: malformed or wrongly signed -> JWTError; exp < now ->        *)
(* ExpiredSignatureError; otherwise the claims.                            *)
(***************************************************************************)
\* Expiry never enforced.
jwt_validate_exp_off(token, verify_exp, t) == FALSE

\* Expiry enforced a refresh lifetime late.
jwt_validate_exp_late(token, verify_exp, t) ==
    verify_exp /\ token.exp + timedelta_days(REFRESH_TOKEN_EXPIRE_DAYS) < t

\* The expiry check made whatever the verify_exp option says.
jwt_validate_exp_always(token, verify_exp, t) ==
    token.exp < t

jwt_validate_exp(token, verify_exp, t) ==
    verify_exp /\ token.exp < t

jwt_decode(token, key, verify_exp, t) ==
    IF ~token.wf THEN [err |-> "JWTError", claims |-> NoToken]
    ELSE IF token.key # key THEN [err |-> "JWTError", claims |-> NoToken]
    ELSE IF jwt_validate_exp(token, verify_exp, t)
         THEN [err |-> "ExpiredSignatureError", claims |-> NoToken]
    ELSE [err |-> "", claims |-> token]

(***************************************************************************)
(* Revocation store (app.auth.redis).  An entry is a jti with the expiry   *)
(* of the token it revokes.  A lookup either answers (up) or fails.        *)
(***************************************************************************)
is_blacklisted(jti, up) ==
    [raised |-> ~up, value |-> \E e \in blacklist : e.jti = jti]

(***************************************************************************)
(* decode_token                                                            *)
(***************************************************************************)
\* decode_token without the revocation check.
decode_token_no_blacklist(token, token_type, verify_exp, up) ==
    LET d == jwt_decode(token, SecretFor(token_type), verify_exp, now)
    IN  IF d.err = "ExpiredSignatureError"
        THEN HTTPException(401, "Token has expired", FALSE)
        ELSE IF d.err = "JWTError"
        THEN HTTPException(401, "Could not validate credentials", FALSE)
        ELSE IF d.claims.type # token_type
        THEN HTTPException(401, "Invalid token type", FALSE)
        ELSE Ok(d.claims, FALSE)

\* decode_token without the type check.
decode_token_no_type(token, token_type, verify_exp, up) ==
    LET d == jwt_decode(token, SecretFor(token_type), verify_exp, now)
    IN  IF d.err = "ExpiredSignatureError"
        THEN HTTPException(401, "Token has expired", FALSE)
        ELSE IF d.err = "JWTError"
        THEN HTTPException(401, "Could not validate credentials", FALSE)
        ELSE IF d.claims.jti = 0
        THEN Raised("KeyError", FALSE)
        ELSE LET b == is_blacklisted(d.claims.jti, up)
             IN  IF b.raised THEN Raised("StoreUnavailable", TRUE)
                 ELSE IF b.value
                 THEN HTTPException(401, "Token has been revoked", TRUE)
                 ELSE Ok(d.claims, TRUE)

\* decode_token that swallows a failed store lookup and goes on.
decode_token_fail_open(token, token_type, verify_exp, up) ==
    LET d == jwt_decode(token, SecretFor(token_type), verify_exp, now)
    IN  IF d.err = "ExpiredSignatureError"
        THEN HTTPException(401, "Token has expired", FALSE)
        ELSE IF d.err = "JWTError"
        THEN HTTPException(401, "Could not validate credentials", FALSE)
        ELSE IF d.claims.type # token_type
        THEN HTTPException(401, "Invalid token type", FALSE)
        ELSE IF d.claims.jti = 0
        THEN Raised("KeyError", FALSE)
        ELSE LET b == is_blacklisted(d.claims.jti, up)
             IN  IF ~b.raised /\ b.value
                 THEN HTTPException(401, "Token has been revoked", TRUE)
                 ELSE Ok(d.claims, TRUE)

\* decode_token that asks the revocation store before it checks expiry.
decode_token_store_first(token, token_type, verify_exp, up) ==
    LET d == jwt_decode(token, SecretFor(token_type), FALSE, now)
    IN  IF d.err = "JWTError"
        THEN HTTPException(401, "Could not validate credentials", FALSE)
        ELSE IF d.claims.type # token_type
        THEN HTTPException(401, "Invalid token type", FALSE)
        ELSE IF d.claims.jti = 0
        THEN Raised("KeyError", FALSE)
        ELSE LET b == is_blacklisted(d.claims.jti, up)
             IN  IF b.raised THEN Raised("StoreUnavailable", TRUE)
                 ELSE IF b.value
                 THEN HTTPException(401, "Token has been revoked", TRUE)
                 ELSE IF jwt_validate_exp(token, verify_exp, now)
                 THEN HTTPException(401, "Token has expired", TRUE)
                 ELSE Ok(d.claims, TRUE)

\* decode_token that treats a token as revoked when any token of the same
\* subject has an entry in the revocation store.
decode_token_revoked_by_sub(token, token_type, verify_exp, up) ==
    LET d == jwt_decode(token, SecretFor(token_type), verify_exp, now)
    IN  IF d.err = "ExpiredSignatureError"
        THEN HTTPException(401, "Token has expired", FALSE)
        ELSE IF d.err = "JWTError"
        THEN HTTPException(401, "Could not validate credentials", FALSE)
        ELSE IF d.claims.type # token_type
        THEN HTTPException(401, "Invalid token type", FALSE)
        ELSE IF d.claims.jti = 0
        THEN Raised("KeyError", FALSE)
        ELSE LET b == is_blacklisted(d.claims.jti, up)
             IN  IF b.raised THEN Raised("StoreUnavailable", TRUE)
                 ELSE IF \E e \in blacklist, i \in issued :
                            i.tok.jti = e.jti /\ i.tok.sub = d.claims.sub
                 THEN HTTPException(401, "Token has been revoked", TRUE)
                 ELSE Ok(d.claims, TRUE)

\* decode_token that looks at the type claim before it looks at expiry.
decode_token_type_first(token, token_type, verify_exp, up) ==
    LET d == jwt_decode(token, SecretFor(token_type), FALSE, now)
    IN  IF d.err = "JWTError"
        THEN HTTPException(401, "Could not validate credentials", FALSE)
        ELSE IF d.claims.type # token_type
        THEN HTTPException(401, "Invalid token type", FALSE)
        ELSE IF jwt_validate_exp(token, verify_exp, now)
        THEN HTTPException(401, "Token has expired", FALSE)
        ELSE IF d.claims.jti = 0
        THEN Raised("KeyError", FALSE)
        ELSE LET b == is_blacklisted(d.claims.jti, up)
             IN  IF b.raised THEN Raised("StoreUnavailable", TRUE)
                 ELSE IF b.value
                 THEN HTTPException(401, "Token has been revoked", TRUE)
                 ELSE Ok(d.claims, TRUE)

decode_token(token, token_type, verify_exp, up) ==
    LET d == jwt_decode(token, SecretFor(token_type), verify_exp, now)
    IN  IF d.err = "ExpiredSignatureError"
        THEN HTTPException(401, "Token has expired", FALSE)
        ELSE IF d.err = "JWTError"
        THEN HTTPException(401, "Could not validate credentials", FALSE)
        ELSE IF d.claims.type # token_type
        THEN HTTPException(401, "Invalid token type", FALSE)
        ELSE IF d.claims.jti = 0
        THEN Raised("KeyError", FALSE)
        ELSE LET b == is_blacklisted(d.claims.jti, up)
             IN  IF b.raised THEN Raised("StoreUnavailable", TRUE)
                 ELSE IF b.value
                 THEN HTTPException(401, "Token has been revoked", TRUE)
                 ELSE Ok(d.claims, TRUE)

(***************************************************************************)
(* decode_access_token                                                     *)
(***************************************************************************)
decode_access_token(token) ==
    LET d == jwt_decode(token, settings.SECRET_KEY, TRUE, now)
    IN  IF d.err = "ExpiredSignatureError"
        THEN HTTPException(401, "Token has expired", FALSE)
        ELSE IF d.err = "JWTError"
        THEN HTTPException(401, "Could not validate token", FALSE)
        ELSE Ok(d.claims, FALSE)

(***************************************************************************)
(* get_current_user                                                        *)
(***************************************************************************)
\* str(e) of the exception get_current_user caught.
ExceptionText(r) ==
    IF r.kind = "exc" THEN r.detail
    ELSE CASE r.detail = "Token has expired" -> "401: Token has expired"
           [] r.detail = "Could not validate credentials" -> "401: Could not validate credentials"
           [] r.detail = "Invalid token type" -> "401: Invalid token type"
           [] r.detail = "Token has been revoked" -> "401: Token has been revoked"
           [] r.detail = "User not found" -> "404: User not found"
           [] r.detail = "Inactive user" -> "400: Inactive user"
           [] OTHER -> r.detail

\* db.query(User).filter(User.id == user_id).first()
FindUserById(user_id) ==
    LET found == {u \in users : UuidText[u.id] = user_id}
    IN  IF found = {} THEN NoUser ELSE CHOOSE u \in found : TRUE

\* get_current_user without the is_active check.
get_current_user_no_active(token, up) ==
    LET r == decode_token(token, ACCESS, TRUE, up)
    IN  IF r.kind # "ok"
        THEN HTTPException(401, ExceptionText(r), r.consulted)
        ELSE LET user == FindUserById(r.payload.sub)
             IN  IF user = NoUser
                 THEN HTTPException(401,
                        ExceptionText(HTTPException(404, "User not found", TRUE)), TRUE)
                 ELSE OkUser(user)

\* get_current_user that lets an HTTPException pass through unchanged and
\* wraps only the other exceptions.
get_current_user_reraise(token, up) ==
    LET r == decode_token(token, ACCESS, TRUE, up)
    IN  IF r.kind = "http" THEN r
        ELSE IF r.kind = "exc" THEN HTTPException(401, ExceptionText(r), r.consulted)
        ELSE LET user == FindUserById(r.payload.sub)
             IN  IF user = NoUser THEN HTTPException(404, "User not found", TRUE)
                 ELSE IF ~user.is_active THEN HTTPException(400, "Inactive user", TRUE)
                 ELSE OkUser(user)

get_current_user(token, up) ==
    LET r == decode_token(token, ACCESS, TRUE, up)
    IN  IF r.kind # "ok"
        THEN HTTPException(401, ExceptionText(r), r.consulted)
        ELSE LET user == FindUserById(r.payload.sub)
             IN  IF user = NoUser
                 THEN HTTPException(401,
                        ExceptionText(HTTPException(404, "User not found", TRUE)), TRUE)
                 ELSE IF ~user.is_active
                 THEN HTTPException(401,
                        ExceptionText(HTTPException(400, "Inactive user", TRUE)), TRUE)
                 ELSE OkUser(user)


(***************************************************************************)
(* decode_token and get_current_user are coroutines: decode_token runs up   *)
(* to `await is_blacklisted(...)`, is suspended there, and goes on with    *)
(* the answer of the store; get_current_user goes on after                 *)
(* `await decode_token(...)`.                                              *)
(***************************************************************************)
\* decode_token from the answer of is_blacklisted to its end.
decode_token_resume(payload, up) ==
    LET b == is_blacklisted(payload.jti, up)
    IN  IF b.raised THEN Raised("StoreUnavailable", TRUE)
        ELSE IF b.value
        THEN HTTPException(401, "Token has been revoked", TRUE)
        ELSE Ok(payload, TRUE)

\* get_current_user from the outcome r of decode_token to its end.
get_current_user_resume(r) ==
    IF r.kind # "ok"
    THEN HTTPException(401, ExceptionText(r), r.consulted)
    ELSE LET user == FindUserById(r.payload.sub)
         IN  IF user = NoUser
             THEN HTTPException(401,
                    ExceptionText(HTTPException(404, "User not found", TRUE)), TRUE)
             ELSE IF ~user.is_active
             THEN HTTPException(401,
                    ExceptionText(HTTPException(400, "Inactive user", TRUE)), TRUE)
             ELSE OkUser(user)


(***************************************************************************)
(* State machine.                                                          *)
(*   settings   the configured secrets                                     *)
(*   now        the clock, in seconds; ticks counts its advances           *)
(*   issued     what create_token / create_access_token have returned,     *)
(*              with the arguments of each call                            *)
(*   nextJti    the next value secrets.token_hex(16) yields (fresh values) *)
(*   blacklist  the revocation store                                       *)
(*   users      the user table                                             *)
(*   last       the last verification call and what it returned            *)
(*   failed     the decode_token calls (verify_exp true) that have         *)
(*              reported Expired or Revoked: the token and which of the two*)
(***************************************************************************)
\* Requests in flight (none in Spec, where each call runs to its end in one
\* step) and the answer of the last register / login request, with the
\* identifier and the password the request carried.
MaxCalls == 2

CallIds == 1..MaxCalls

NoCall ==
    [pc |-> "idle", op |-> "none", token |-> NoToken, token_type |-> "",
     t0 |-> 0, revokedAtStart |-> FALSE, answered |-> FALSE,
     res |-> Ok(NoToken, FALSE)]

NoCalls == [c \in CallIds |-> NoCall]

\* The last call of a function or request that the variables above do not
\* record, with its arguments and its outcome.
NoCheck == [op |-> "none"]

NoReply ==
    [op |-> "none", status |-> 0, detail |-> "", access_token |-> NoToken,
     refresh_token |-> NoToken, user_id |-> 0, identifier |-> "", password |-> ""]

Idle ==
    [op |-> "none", token |-> NoToken, token_type |-> "", verify_exp |-> TRUE,
     up |-> TRUE, res |-> Ok(NoToken, FALSE)]

Call(op, token, token_type, verify_exp, up, res) ==
    [op |-> op, token |-> token, token_type |-> token_type, verify_exp |-> verify_exp,
     up |-> up, res |-> res]

InitialUsers == { [id |-> 1, is_active |-> TRUE], [id |-> 2, is_active |-> FALSE] }

\* Clock advances tried: a second, and the refresh lifetime (longer than the
\* access lifetime).
Steps == { 1, timedelta_days(REFRESH_TOKEN_EXPIRE_DAYS) }

\* Token strings a caller can present.
Presentable == {i.tok : i \in issued} \cup Forged

Init ==
    /\ settings \in SettingsChoices
    /\ now = 0
    /\ ticks = 0
    /\ issued = {}
    /\ nextJti = 1
    /\ blacklist = {}
    /\ users = InitialUsers
    /\ last = Idle
    /\ failed = {}
    /\ calls = NoCalls
    /\ accounts = {}
    /\ reply = NoReply
    /\ hashes = {}
    /\ check = NoCheck
    /\ calculations = {}

\* A call of create_token.
CreateToken(user_id, token_type, expires_delta) ==
    /\ Cardinality(issued) < MaxIssued
    /\ issued' = issued \cup
          { [tok |-> create_token(user_id, token_type, expires_delta, now, nextJti),
             by |-> "create_token", user_id |-> user_id, token_type |-> token_type,
             expires |-> expires_delta] }
    /\ nextJti' = nextJti + 1
    /\ last' = Idle
    /\ UNCHANGED <<settings, now, ticks, blacklist, users, failed,
                   calls, accounts, reply,
                   hashes, check, calculations>>

\* A call of create_access_token.
CreateAccessToken(data, expires_minutes) ==
    /\ Cardinality(issued) < MaxIssued
    /\ issued' = issued \cup
          { [tok |-> create_access_token(data, expires_minutes, now),
             by |-> "create_access_token", user_id |-> StrSubject(data.sub),
             token_type |-> data.type, expires |-> expires_minutes] }
    /\ last' = Idle
    /\ UNCHANGED <<settings, now, ticks, nextJti, blacklist, users, failed,
                   calls, accounts, reply,
                   hashes, check, calculations>>

\* Time passes.
Tick(d) ==
    /\ ticks < MaxTicks
    /\ now' = now + d
    /\ ticks' = ticks + 1
    /\ last' = Idle
    /\ UNCHANGED <<settings, issued, nextJti, blacklist, users, failed,
                   calls, accounts, reply,
                   hashes, check, calculations>>

\* add_to_blacklist(jti, exp) for an issued token (logout, rotation).
Revoke(i) ==
    /\ i.tok.jti # 0
    /\ blacklist' = blacklist \cup { [jti |-> i.tok.jti, exp |-> i.tok.exp] }
    /\ blacklist' # blacklist
    /\ last' = Idle
    /\ UNCHANGED <<settings, now, ticks, issued, nextJti, users, failed,
                   calls, accounts, reply,
                   hashes, check, calculations>>

\* The store drops an entry, never before the token it revokes has expired.
Purge(e) ==
    /\ e.exp < now
    /\ blacklist' = blacklist \ {e}
    /\ last' = Idle
    /\ UNCHANGED <<settings, now, ticks, issued, nextJti, users, failed,
                   calls, accounts, reply,
                   hashes, check, calculations>>

\* A call of decode_token.
DecodeToken(token, token_type, verify_exp, up) ==
    LET res == decode_token(token, token_type, verify_exp, up)
    IN  /\ last' = Call("decode_token", token, token_type, verify_exp, up, res)
        /\ failed' = IF /\ verify_exp
                        /\ res.detail \in {"Token has expired", "Token has been revoked"}
                     THEN failed \cup {[token |-> token, detail |-> res.detail]}
                     ELSE failed
        /\ UNCHANGED <<settings, now, ticks, issued, nextJti, blacklist, users,
                   calls, accounts, reply,
                   hashes, check, calculations>>

\* A call of decode_access_token.
DecodeAccessToken(token) ==
    /\ last' = Call("decode_access_token", token, ACCESS, TRUE, TRUE,
                    decode_access_token(token))
    /\ UNCHANGED <<settings, now, ticks, issued, nextJti, blacklist, users, failed,
                   calls, accounts, reply,
                   hashes, check, calculations>>

\* A request through the get_current_user dependency.
GetCurrentUser(token, up) ==
    /\ last' = Call("get_current_user", token, ACCESS, TRUE, up,
                    get_current_user(token, up))
    /\ UNCHANGED <<settings, now, ticks, issued, nextJti, blacklist, users, failed,
                   calls, accounts, reply,
                   hashes, check, calculations>>

Next ==
    \/ \E user_id \in Subjects, token_type \in TokenType, expires_delta \in ExpiresDeltas :
          CreateToken(user_id, token_type, expires_delta)
    \/ \E data \in DataChoices, expires_minutes \in ExpiresMinutes :
          CreateAccessToken(data, expires_minutes)
    \/ \E d \in Steps : Tick(d)
    \/ \E i \in issued : Revoke(i)
    \/ \E e \in blacklist : Purge(e)
    \/ \E token \in Presentable, token_type \in TokenType, verify_exp \in BOOLEAN,
          up \in BOOLEAN : DecodeToken(token, token_type, verify_exp, up)
    \/ \E token \in Presentable : DecodeAccessToken(token)
    \/ \E token \in Presentable, up \in BOOLEAN : GetCurrentUser(token, up)

Spec == Init /\ [][Next]_vars


(***************************************************************************)
(* Several tokens in circulation.  The same operations as in Spec, with     *)
(* up to MaxPair tokens issued by create_token without a TTL override, one *)
(* configuration, and verification calls that check expiry against a store *)
(* that answers.                                                           *)
(***************************************************************************)
MaxPair == 2

PairSubjects == { UuidSubject(1), UuidSubject(2) }

InitPair ==
    /\ settings = [JWT_SECRET_KEY |-> "k1", JWT_REFRESH_SECRET_KEY |-> "k2",
                   SECRET_KEY |-> "k3"]
    /\ now = 0
    /\ ticks = 0
    /\ issued = {}
    /\ nextJti = 1
    /\ blacklist = {}
    /\ users = InitialUsers
    /\ last = Idle
    /\ failed = {}
    /\ calls = NoCalls
    /\ accounts = {}
    /\ reply = NoReply
    /\ hashes = {}
    /\ check = NoCheck
    /\ calculations = {}

\* A call of create_token while fewer than MaxPair tokens are in circulation.
CreateTokenPair(user_id, token_type) ==
    /\ Cardinality(issued) < MaxPair
    /\ issued' = issued \cup
          { [tok |-> create_token(user_id, token_type, None, now, nextJti),
             by |-> "create_token", user_id |-> user_id, token_type |-> token_type,
             expires |-> None] }
    /\ nextJti' = nextJti + 1
    /\ last' = Idle
    /\ UNCHANGED <<settings, now, ticks, blacklist, users, failed,
                   calls, accounts, reply,
                   hashes, check, calculations>>

NextPair ==
    \/ \E user_id \in PairSubjects, token_type \in TokenType :
          CreateTokenPair(user_id, token_type)
    \/ \E d \in Steps : Tick(d)
    \/ \E i \in issued : Revoke(i)
    \/ \E e \in blacklist : Purge(e)
    \/ \E token \in Presentable, token_type \in TokenType :
          DecodeToken(token, token_type, TRUE, TRUE)
    \/ \E token \in Presentable : GetCurrentUser(token, TRUE)

SpecPair == InitPair /\ [][NextPair]_vars

(***************************************************************************)
(* Concurrent requests.  Up to MaxCalls verification calls are in flight;  *)
(* each is suspended at the store lookup, and additions to the store, the  *)
(* clock and the store's purge run between its start and its resumption.   *)
(*   calls[c].pc              "idle", "await" (suspended at the lookup),   *)
(*                            "done"                                       *)
(*   calls[c].t0              the clock when the call started              *)
(*   calls[c].revokedAtStart  the token's jti was in the store then        *)
(*   calls[c].answered        the store answered the lookup of the call    *)
(***************************************************************************)
InitConc ==
    /\ settings = [JWT_SECRET_KEY |-> "k1", JWT_REFRESH_SECRET_KEY |-> "k2",
                   SECRET_KEY |-> "k3"]
    /\ now = 0
    /\ ticks = 0
    /\ issued = {}
    /\ nextJti = 1
    /\ blacklist = {}
    /\ users = InitialUsers
    /\ last = Idle
    /\ failed = {}
    /\ calls = NoCalls
    /\ accounts = {}
    /\ reply = NoReply
    /\ hashes = {}
    /\ check = NoCheck
    /\ calculations = {}

\* decode_token is called and runs to the store lookup, or fails before it.
StartDecodeToken(c, token, token_type) ==
    /\ calls[c].pc = "idle"
    /\ LET pre == decode_token(token, token_type, TRUE, TRUE)
       IN  calls' = [calls EXCEPT ![c] =
              [pc |-> IF pre.consulted THEN "await" ELSE "done",
               op |-> "decode_token", token |-> token, token_type |-> token_type,
               t0 |-> now, revokedAtStart |-> \E e \in blacklist : e.jti = token.jti,
               answered |-> FALSE,
               res |-> IF pre.consulted THEN Ok(NoToken, FALSE) ELSE pre]]
    /\ UNCHANGED <<settings, now, ticks, issued, nextJti, blacklist, users, last,
                   failed, accounts, reply,
                   hashes, check, calculations>>

\* get_current_user is called and runs to the store lookup of decode_token,
\* or fails before it.
StartGetCurrentUser(c, token) ==
    /\ calls[c].pc = "idle"
    /\ LET pre == decode_token(token, ACCESS, TRUE, TRUE)
       IN  calls' = [calls EXCEPT ![c] =
              [pc |-> IF pre.consulted THEN "await" ELSE "done",
               op |-> "get_current_user", token |-> token, token_type |-> ACCESS,
               t0 |-> now, revokedAtStart |-> \E e \in blacklist : e.jti = token.jti,
               answered |-> FALSE,
               res |-> IF pre.consulted THEN Ok(NoToken, FALSE)
                       ELSE get_current_user_resume(pre)]]
    /\ UNCHANGED <<settings, now, ticks, issued, nextJti, blacklist, users, last,
                   failed, accounts, reply,
                   hashes, check, calculations>>

\* A lookup that removes the entry it finds.
Lookup_consumes_entry(c, up) ==
    /\ calls[c].pc = "await"
    /\ LET r == decode_token_resume(calls[c].token, up)
       IN  calls' = [calls EXCEPT ![c].pc = "done", ![c].answered = up,
                                  ![c].res = IF calls[c].op = "decode_token" THEN r
                                             ELSE get_current_user_resume(r)]
    /\ blacklist' = {e \in blacklist : e.jti # calls[c].token.jti}
    /\ UNCHANGED <<settings, now, ticks, issued, nextJti, users, last,
                   failed, accounts, reply,
                   hashes, check, calculations>>

\* The store answers the lookup of call c (or fails) and the call runs to
\* its end.
Lookup(c, up) ==
    /\ calls[c].pc = "await"
    /\ LET r == decode_token_resume(calls[c].token, up)
       IN  calls' = [calls EXCEPT ![c].pc = "done", ![c].answered = up,
                                  ![c].res = IF calls[c].op = "decode_token" THEN r
                                             ELSE get_current_user_resume(r)]
    /\ UNCHANGED <<settings, now, ticks, issued, nextJti, blacklist, users, last,
                   failed, accounts, reply,
                   hashes, check, calculations>>

NextConc ==
    \/ \E expires_delta \in {None, Some(1)} :
          CreateToken(UuidSubject(1), ACCESS, expires_delta)
    \/ \E d \in Steps : Tick(d)
    \/ \E i \in issued : Revoke(i)
    \/ \E e \in blacklist : Purge(e)
    \/ \E c \in CallIds, token \in Presentable, token_type \in TokenType :
          StartDecodeToken(c, token, token_type)
    \/ \E c \in CallIds, token \in Presentable : StartGetCurrentUser(c, token)
    \/ \E c \in CallIds, up \in BOOLEAN : Lookup(c, up)

SpecConc == InitConc /\ [][NextConc]_vars

(***************************************************************************)
(* Concurrent requests that may be abandoned.  The request of a call that  *)
(* is suspended at the store lookup is cancelled: the coroutine is         *)
(* dropped where it stands and produces no result.                         *)
(***************************************************************************)
Abandon(c) ==
    /\ calls[c].pc = "await"
    /\ calls' = [calls EXCEPT ![c].pc = "abandoned"]
    /\ UNCHANGED <<settings, now, ticks, issued, nextJti, blacklist, users, last,
                   failed, accounts, reply,
                   hashes, check, calculations>>

NextCancel ==
    \/ NextConc
    \/ \E c \in CallIds : Abandon(c)
    \/ \E token \in Presentable : DecodeAccessToken(token)

SpecCancel == InitConc /\ [][NextCancel]_vars

(***************************************************************************)
(* Registration and login (main.py), on an empty user table.               *)
(*   accounts   the credentials of the stored users: id, email, username,  *)
(*              password hash (users holds their id and is_active)         *)
(*   reply      the response to the last register / login request          *)
(* User.register, User.authenticate and User.create_access_token /         *)
(* create_refresh_token belong to app.models.user.                         *)
(***************************************************************************)
MaxTokens == 4

Emails == { "a@example.com", "b@example.com" }

Usernames == { "alice", "bob" }

Passwords == { "Secret123", "Other4567" }

Identifiers == Emails \cup Usernames \cup { "nobody" }

Salts == { 1 }

UserCreates == [email : Emails, username : Usernames, password : Passwords]

\* What bcrypt reads of a password: its first 72 bytes.
bcrypt_secret(plain) ==
    IF Len(plain) > 72 THEN SubSeq(plain, 1, 72) ELSE plain

\* pwd_context.hash(plain): a bcrypt hash string, that is the scheme, a
\* fresh salt and the digest of the salt and the password bcrypt reads.
\* wf is false for a string that starts as a bcrypt hash and is cut short.
hash_password(plain, salt) ==
    [scheme |-> "bcrypt", wf |-> TRUE, salt |-> salt,
     digest |-> <<salt, bcrypt_secret(plain)>>]

\* pwd_context.verify(plain, hashed): the scheme of the hash is identified
\* (UnknownHashError when it is none of the context's schemes), the hash is
\* parsed (ValueError when malformed), the digest is derived again from its
\* salt and compared.
verify_password(plain, hashed) ==
    IF hashed.scheme # "bcrypt"
    THEN [raised |-> "UnknownHashError", value |-> FALSE]
    ELSE IF ~hashed.wf
    THEN [raised |-> "ValueError", value |-> FALSE]
    ELSE [raised |-> "", value |-> hashed.digest = <<hashed.salt, bcrypt_secret(plain)>>]

NoAccount ==
    [id |-> 0, email |-> "", username |-> "", password |-> hash_password("", 0)]

\* User.register(db, user_data): the new row, with the password hashed.
User_register(user_data, id, salt) ==
    [id |-> id, email |-> user_data.email, username |-> user_data.username,
     password |-> hash_password(user_data.password, salt)]

\* User.authenticate(db, username_or_email, password): the user whose
\* username or email is the identifier, if the password verifies.
User_authenticate(identifier, password) ==
    LET found == {a \in accounts : a.username = identifier \/ a.email = identifier}
    IN  IF found = {} THEN NoAccount
        ELSE LET a == CHOOSE a \in found : TRUE
             IN  IF verify_password(password, a.password).value THEN a ELSE NoAccount

Reply(op, status, detail, access_token, refresh_token, user_id, identifier, password) ==
    [op |-> op, status |-> status, detail |-> detail, access_token |-> access_token,
     refresh_token |-> refresh_token, user_id |-> user_id,
     identifier |-> identifier, password |-> password]

\* The issue record of a token that register / login hands out.
Issued(user_id, token_type, jti) ==
    [tok |-> create_token(UuidSubject(user_id), token_type, None, now, jti),
     by |-> "create_token", user_id |-> UuidSubject(user_id),
     token_type |-> token_type, expires |-> None]

InitAuth ==
    /\ settings = [JWT_SECRET_KEY |-> "k1", JWT_REFRESH_SECRET_KEY |-> "k2",
                   SECRET_KEY |-> "k3"]
    /\ now = 0
    /\ ticks = 0
    /\ issued = {}
    /\ nextJti = 1
    /\ blacklist = {}
    /\ users = {}
    /\ last = Idle
    /\ failed = {}
    /\ calls = NoCalls
    /\ accounts = {}
    /\ reply = NoReply
    /\ hashes = {}
    /\ check = NoCheck
    /\ calculations = {}

\* register that does not look for a stored user with the same username.
Register_no_username_check(user_create, id, salt) ==
    /\ last' = Idle
    /\ IF \E a \in accounts : a.email = user_create.email
       THEN /\ reply' = Reply("register", 400, "Email already exists", NoToken, NoToken,
                              0, user_create.email, user_create.password)
            /\ UNCHANGED <<accounts, users, issued, nextJti>>
       ELSE /\ id \notin {u.id : u \in users}
            /\ Cardinality(issued) + 2 <= MaxTokens
            /\ accounts' = accounts \cup {User_register(user_create, id, salt)}
            /\ users' = users \cup {[id |-> id, is_active |-> TRUE]}
            /\ issued' = issued \cup {Issued(id, ACCESS, nextJti),
                                      Issued(id, REFRESH, nextJti + 1)}
            /\ nextJti' = nextJti + 2
            /\ reply' = Reply("register", 201, "", Issued(id, ACCESS, nextJti).tok,
                              Issued(id, REFRESH, nextJti + 1).tok, id,
                              user_create.email, user_create.password)
    /\ UNCHANGED <<settings, now, ticks, blacklist, failed, calls,
                   hashes, check, calculations>>

\* POST /auth/register.  id is the primary key the new row gets, salt the
\* salt of its password hash.
Register(user_create, id, salt) ==
    /\ last' = Idle
    /\ IF \E a \in accounts : a.email = user_create.email
       THEN /\ reply' = Reply("register", 400, "Email already exists", NoToken, NoToken,
                              0, user_create.email, user_create.password)
            /\ UNCHANGED <<accounts, users, issued, nextJti>>
       ELSE IF \E a \in accounts : a.username = user_create.username
       THEN /\ reply' = Reply("register", 400, "Username already exists", NoToken,
                              NoToken, 0, user_create.email, user_create.password)
            /\ UNCHANGED <<accounts, users, issued, nextJti>>
       ELSE /\ id \notin {u.id : u \in users}
            /\ Cardinality(issued) + 2 <= MaxTokens
            /\ accounts' = accounts \cup {User_register(user_create, id, salt)}
            /\ users' = users \cup {[id |-> id, is_active |-> TRUE]}
            /\ issued' = issued \cup {Issued(id, ACCESS, nextJti),
                                      Issued(id, REFRESH, nextJti + 1)}
            /\ nextJti' = nextJti + 2
            /\ reply' = Reply("register", 201, "", Issued(id, ACCESS, nextJti).tok,
                              Issued(id, REFRESH, nextJti + 1).tok, id,
                              user_create.email, user_create.password)
    /\ UNCHANGED <<settings, now, ticks, blacklist, failed, calls,
                   hashes, check, calculations>>

\* login_json that hands out the refresh token as access token and the
\* access token as refresh token.
Login_swapped_tokens(identifier, password) ==
    LET a == User_authenticate(identifier, password)
    IN  /\ last' = Idle
        /\ IF a = NoAccount
           THEN /\ reply' = Reply("login", 401, "Invalid credentials", NoToken, NoToken,
                                  0, identifier, password)
                /\ UNCHANGED <<issued, nextJti>>
           ELSE /\ Cardinality(issued) + 2 <= MaxTokens
                /\ issued' = issued \cup {Issued(a.id, ACCESS, nextJti),
                                          Issued(a.id, REFRESH, nextJti + 1)}
                /\ nextJti' = nextJti + 2
                /\ reply' = Reply("login", 200, "", Issued(a.id, REFRESH, nextJti + 1).tok,
                                  Issued(a.id, ACCESS, nextJti).tok, a.id,
                                  identifier, password)
        /\ UNCHANGED <<settings, now, ticks, blacklist, users, failed, calls, accounts,
                   hashes, check, calculations>>

\* login_json that tells an unknown identifier from a wrong password.
Login_reveals_unknown(identifier, password) ==
    LET a == User_authenticate(identifier, password)
    IN  /\ last' = Idle
        /\ IF a = NoAccount
           THEN /\ reply' = Reply("login", 401,
                                  IF \E u \in accounts :
                                        u.username = identifier \/ u.email = identifier
                                  THEN "Invalid credentials" ELSE "User not found",
                                  NoToken, NoToken, 0, identifier, password)
                /\ UNCHANGED <<issued, nextJti>>
           ELSE /\ Cardinality(issued) + 2 <= MaxTokens
                /\ issued' = issued \cup {Issued(a.id, ACCESS, nextJti),
                                          Issued(a.id, REFRESH, nextJti + 1)}
                /\ nextJti' = nextJti + 2
                /\ reply' = Reply("login", 200, "", Issued(a.id, ACCESS, nextJti).tok,
                                  Issued(a.id, REFRESH, nextJti + 1).tok, a.id,
                                  identifier, password)
        /\ UNCHANGED <<settings, now, ticks, blacklist, users, failed, calls, accounts,
                   hashes, check, calculations>>

\* POST /auth/login (login_json).
Login(identifier, password) ==
    LET a == User_authenticate(identifier, password)
    IN  /\ last' = Idle
        /\ IF a = NoAccount
           THEN /\ reply' = Reply("login", 401, "Invalid credentials", NoToken, NoToken,
                                  0, identifier, password)
                /\ UNCHANGED <<issued, nextJti>>
           ELSE /\ Cardinality(issued) + 2 <= MaxTokens
                /\ issued' = issued \cup {Issued(a.id, ACCESS, nextJti),
                                          Issued(a.id, REFRESH, nextJti + 1)}
                /\ nextJti' = nextJti + 2
                /\ reply' = Reply("login", 200, "", Issued(a.id, ACCESS, nextJti).tok,
                                  Issued(a.id, REFRESH, nextJti + 1).tok, a.id,
                                  identifier, password)
        /\ UNCHANGED <<settings, now, ticks, blacklist, users, failed, calls, accounts,
                   hashes, check, calculations>>

NextAuth ==
    \/ \E user_create \in UserCreates, salt \in Salts :
          Register(user_create, Cardinality(users) + 1, salt)
    \/ \E identifier \in Identifiers, password \in Passwords :
          Login(identifier, password)
    \/ Tick(timedelta_days(REFRESH_TOKEN_EXPIRE_DAYS))
    \/ \E i \in issued : i.token_type = ACCESS /\ Revoke(i)
    \/ \E e \in blacklist : Purge(e)
    \/ \E i \in issued, up \in BOOLEAN : GetCurrentUser(i.tok, up)

SpecAuth == InitAuth /\ [][NextAuth]_vars

(***************************************************************************)
(* Functions checked on their own: password hashing (security.py) and the  *)
(* validation of a registration form (schemas/auth.py).                    *)
(*   hashes   what hash_password has returned, each with its plain text    *)
(*   check    the last verify_password call or validation and its outcome  *)
(***************************************************************************)
MaxHashes == 2

\* A password of 72 characters, and passwords that go on after it.
Long72 == "Aa1xxxxxxxxxxxxxxxxxxxxxxxxxxxxxxxxxxxxxxxxxxxxxxxxxxxxxxxxxxxxxxxxxxxxx"

PlainTexts == { "Secret123", "Other4567", Long72, Long72 \o "Y", Long72 \o "Z" }

HashSalts == { 1, 2 }

\* Strings that hash_password does not produce: the empty string, a string
\* of no scheme of the context, a bcrypt hash cut short.
MalformedHashes ==
    { [scheme |-> "", wf |-> FALSE, salt |-> 0, digest |-> <<>>],
      [scheme |-> "plaintext", wf |-> FALSE, salt |-> 0, digest |-> <<>>],
      [scheme |-> "bcrypt", wf |-> FALSE, salt |-> 1, digest |-> <<>>] }

(***************************************************************************)
(* UserRegister (schemas/auth.py): the password and confirm_password       *)
(* fields with their length constraints, and the two validators.           *)
(***************************************************************************)
UpperCase ==
    {
      "A", "B", "C", "D", "E", "F", "G", "H", "I", "J", "K", "L", "M",
      "N", "O", "P", "Q", "R", "S", "T", "U", "V", "W", "X", "Y", "Z" }

LowerCase ==
    {
      "a", "b", "c", "d", "e", "f", "g", "h", "i", "j", "k", "l", "m",
      "n", "o", "p", "q", "r", "s", "t", "u", "v", "w", "x", "y", "z" }

Digits == { "0", "1", "2", "3", "4", "5", "6", "7", "8", "9" }

\* any(char.<test>() for char in v), for the characters of class.
AnyChar(v, class) == \E i \in 1..Len(v) : SubSeq(v, i, i) \in class

\* confirm_password: None, or a string.
NoConfirm == [given |-> FALSE, v |-> ""]

Confirm(v) == [given |-> TRUE, v |-> v]

Accepted == [ok |-> TRUE, error |-> ""]

ValidationError(msg) == [ok |-> FALSE, error |-> msg]

\* Field(min_length=8, max_length=128) on a string.
Field_length(v) ==
    IF Len(v) < 8 THEN ValidationError("string_too_short")
    ELSE IF Len(v) > 128 THEN ValidationError("string_too_long")
    ELSE Accepted

validate_password_strength(v) ==
    IF Len(v) < 8
    THEN ValidationError("Password must be at least 8 characters long")
    ELSE IF ~AnyChar(v, UpperCase)
    THEN ValidationError("Password must contain at least one uppercase letter")
    ELSE IF ~AnyChar(v, LowerCase)
    THEN ValidationError("Password must contain at least one lowercase letter")
    ELSE IF ~AnyChar(v, Digits)
    THEN ValidationError("Password must contain at least one digit")
    ELSE Accepted

verify_password_match(password, confirm_password) ==
    IF confirm_password.given /\ password # confirm_password.v
    THEN ValidationError("Passwords do not match")
    ELSE Accepted

\* UserRegister validation without the digit rule.
UserRegister_no_digit_rule(password, confirm_password) ==
    LET strength == IF ~AnyChar(password, UpperCase) \/ ~AnyChar(password, LowerCase)
                    THEN ValidationError("weak") ELSE Accepted
        confirm == IF confirm_password.given THEN Field_length(confirm_password.v)
                   ELSE Accepted
    IN  IF ~Field_length(password).ok THEN Field_length(password)
        ELSE IF ~strength.ok THEN strength
        ELSE IF ~confirm.ok THEN confirm
        ELSE verify_password_match(password, confirm_password)

\* Validation of the password / confirm_password pair of a UserRegister:
\* each field's constraints, then its field validator; the model validator
\* runs when no field failed.  The first error found stands for the errors
\* reported.
UserRegister(password, confirm_password) ==
    LET strength == validate_password_strength(password)
        confirm == IF confirm_password.given THEN Field_length(confirm_password.v)
                   ELSE Accepted
    IN  IF ~Field_length(password).ok THEN Field_length(password)
        ELSE IF ~strength.ok THEN strength
        ELSE IF ~confirm.ok THEN confirm
        ELSE verify_password_match(password, confirm_password)

\* Passwords tried: good ones of 9, 8, 128 and 129 characters, and one for
\* each rule it breaks.
Long128 == "Aa1xxxxxxxxxxxxxxxxxxxxxxxxxxxxxxxxxxxxxxxxxxxxxxxxxxxxxxxxxxxxxxxxxxxxxxxxxxxxxxxxxxxxxxxxxxxxxxxxxxxxxxxxxxxxxxxxxxxxxxxxxxxxx"

Long129 == "Aa1xxxxxxxxxxxxxxxxxxxxxxxxxxxxxxxxxxxxxxxxxxxxxxxxxxxxxxxxxxxxxxxxxxxxxxxxxxxxxxxxxxxxxxxxxxxxxxxxxxxxxxxxxxxxxxxxxxxxxxxxxxxxxx"

FormPasswords ==
    { "Secret123", "Abcdefg1", "Abcdef1", "secret123", "SECRET123", "SecretABC",
      Long128, Long129 }

(***************************************************************************)
(* The expires_at of login_json's response (main.py).  A datetime is a     *)
(* time in seconds, timezone-aware (UTC) or naive.                         *)
(***************************************************************************)
NoDatetime == [given |-> FALSE, aware |-> FALSE, t |-> 0]

Datetime(aware, t) == [given |-> TRUE, aware |-> aware, t |-> t]

\* auth_result.get("expires_at") values tried.
AuthExpiresAt ==
    {NoDatetime} \cup
    { Datetime(aware, t) :
        aware \in BOOLEAN,
        t \in {60, timedelta_minutes(ACCESS_TOKEN_EXPIRE_MINUTES)} }

\* login_json, from auth_result.get("expires_at") to the expires_at of the
\* response, at clock t.
login_expires_at(expires_at, t) ==
    IF expires_at.given /\ ~expires_at.aware
    THEN Datetime(TRUE, expires_at.t)
    ELSE Datetime(TRUE, t + timedelta_minutes(ACCESS_TOKEN_EXPIRE_MINUTES))

InitPure ==
    /\ settings = [JWT_SECRET_KEY |-> "k1", JWT_REFRESH_SECRET_KEY |-> "k2",
                   SECRET_KEY |-> "k3"]
    /\ now = 0
    /\ ticks = 0
    /\ issued = {}
    /\ nextJti = 1
    /\ blacklist = {}
    /\ users = {}
    /\ last = Idle
    /\ failed = {}
    /\ calls = NoCalls
    /\ accounts = {}
    /\ reply = NoReply
    /\ hashes = {}
    /\ check = NoCheck
    /\ calculations = {}

\* A call of hash_password.
HashPassword(plain, salt) ==
    /\ Cardinality(hashes) < MaxHashes
    /\ hashes' = hashes \cup {[plain |-> plain, hashed |-> hash_password(plain, salt)]}
    /\ check' = NoCheck
    /\ UNCHANGED <<settings, now, ticks, issued, nextJti, blacklist, users, last,
                   failed, calls, accounts, reply, calculations>>

\* A UserRegister is built from a request body.
ValidateUserRegister(password, confirm_password) ==
    /\ check' = [op |-> "UserRegister", password |-> password,
                 confirm_password |-> confirm_password,
                 res |-> UserRegister(password, confirm_password)]
    /\ UNCHANGED <<settings, now, ticks, issued, nextJti, blacklist, users, last,
                   failed, calls, accounts, reply, hashes, calculations>>

\* login_json computes the expires_at of its response.
LoginExpiresAt(expires_at) ==
    /\ check' = [op |-> "login_expires_at", expires_at |-> expires_at, now |-> now,
                 res |-> login_expires_at(expires_at, now)]
    /\ UNCHANGED <<settings, now, ticks, issued, nextJti, blacklist, users, last,
                   failed, calls, accounts, reply, hashes, calculations>>

\* A call of verify_password.
VerifyPassword(plain, hashed) ==
    /\ check' = [op |-> "verify_password", plain |-> plain, hashed |-> hashed,
                 res |-> verify_password(plain, hashed)]
    /\ UNCHANGED <<settings, now, ticks, issued, nextJti, blacklist, users, last,
                   failed, calls, accounts, reply, hashes, calculations>>

NextPure ==
    \/ \E plain \in PlainTexts, salt \in HashSalts : HashPassword(plain, salt)
    \/ \E plain \in PlainTexts, hashed \in {h.hashed : h \in hashes} \cup MalformedHashes :
          VerifyPassword(plain, hashed)
    \/ \E password \in FormPasswords,
          confirm_password \in {NoConfirm} \cup {Confirm(v) : v \in FormPasswords} :
          ValidateUserRegister(password, confirm_password)
    \/ \E expires_at \in AuthExpiresAt : LoginExpiresAt(expires_at)
    \/ \E d \in Steps : Tick(d)

SpecPure == InitPure /\ [][NextPure]_vars

(***************************************************************************)
(* The calculation endpoints (main.py).  Each request comes with the user  *)
(* that get_current_active_user (app.auth.dependencies) resolved.          *)
(*   calculations   the stored calculations: id, user_id, inputs, result   *)
(*   check          the last request, its user and its response            *)
(* Calculation.create and get_result belong to app.models.calculation; an  *)
(* addition stands for them.                                               *)
(***************************************************************************)
MaxCalcs == 3

CalcIds == 1..MaxCalcs

\* A calc_id that is not the text of a UUID.
NotAUuid == 0

CalcUsers == { 1, 2 }

CalcInputs == { <<1, 2>>, <<3, 4>> }

\* calculation_update.inputs: None, or new inputs.
NoInputs == <<>>

get_result(inputs) == inputs[1] + inputs[2]

\* db.query(Calculation).filter(Calculation.id == calc_uuid,
\*                              Calculation.user_id == current_user.id)
FindCalculation(calc_id, user_id) ==
    {c \in calculations : c.id = calc_id /\ c.user_id = user_id}

CalcReply(op, user, calc_id, status, detail, body) ==
    [op |-> op, user |-> user, calc_id |-> calc_id, status |-> status,
     detail |-> detail, body |-> body]

InitCalc ==
    /\ settings = [JWT_SECRET_KEY |-> "k1", JWT_REFRESH_SECRET_KEY |-> "k2",
                   SECRET_KEY |-> "k3"]
    /\ now = 0
    /\ ticks = 0
    /\ issued = {}
    /\ nextJti = 1
    /\ blacklist = {}
    /\ users = InitialUsers
    /\ last = Idle
    /\ failed = {}
    /\ calls = NoCalls
    /\ accounts = {}
    /\ reply = NoReply
    /\ hashes = {}
    /\ check = NoCheck
    /\ calculations = {}

\* POST /calculations.  id is the primary key the new row gets.
CreateCalculation(current_user, inputs, id) ==
    /\ id \notin {c.id : c \in calculations}
    /\ LET new_calculation == [id |-> id, user_id |-> current_user, inputs |-> inputs,
                               result |-> get_result(inputs)]
       IN  /\ calculations' = calculations \cup {new_calculation}
           /\ check' = CalcReply("create", current_user, id, 201, "", {new_calculation})
    /\ UNCHANGED <<settings, now, ticks, issued, nextJti, blacklist, users, last,
                   failed, calls, accounts, reply, hashes>>

\* GET /calculations.
ListCalculations(current_user) ==
    /\ check' = CalcReply("list", current_user, NotAUuid, 200, "",
                          {c \in calculations : c.user_id = current_user})
    /\ UNCHANGED calculations
    /\ UNCHANGED <<settings, now, ticks, issued, nextJti, blacklist, users, last,
                   failed, calls, accounts, reply, hashes>>

\* GET /calculations/{calc_id}.
GetCalculation(current_user, calc_id) ==
    /\ check' = IF calc_id = NotAUuid
                THEN CalcReply("get", current_user, calc_id, 400,
                               "Invalid calculation id format.", {})
                ELSE IF FindCalculation(calc_id, current_user) = {}
                THEN CalcReply("get", current_user, calc_id, 404,
                               "Calculation not found.", {})
                ELSE CalcReply("get", current_user, calc_id, 200, "",
                               FindCalculation(calc_id, current_user))
    /\ UNCHANGED calculations
    /\ UNCHANGED <<settings, now, ticks, issued, nextJti, blacklist, users, last,
                   failed, calls, accounts, reply, hashes>>

\* update_calculation that looks the calculation up by its id alone.
UpdateCalculation_any_owner(current_user, calc_id, inputs) ==
    LET found == {c \in calculations : c.id = calc_id}
    IN  /\ IF calc_id = NotAUuid
           THEN /\ check' = CalcReply("update", current_user, calc_id, 400,
                                      "Invalid calculation id format.", {})
                /\ UNCHANGED calculations
           ELSE IF found = {}
           THEN /\ check' = CalcReply("update", current_user, calc_id, 404,
                                      "Calculation not found.", {})
                /\ UNCHANGED calculations
           ELSE LET calculation == CHOOSE c \in found : TRUE
                    updated == IF inputs = NoInputs THEN calculation
                               ELSE [calculation EXCEPT !.inputs = inputs,
                                                        !.result = get_result(inputs)]
                IN  /\ calculations' = (calculations \ {calculation}) \cup {updated}
                    /\ check' = CalcReply("update", current_user, calc_id, 200, "",
                                          {updated})
    /\ UNCHANGED <<settings, now, ticks, issued, nextJti, blacklist, users, last,
                   failed, calls, accounts, reply, hashes>>

\* PUT /calculations/{calc_id}.
UpdateCalculation(current_user, calc_id, inputs) ==
    LET found == FindCalculation(calc_id, current_user)
    IN  /\ IF calc_id = NotAUuid
           THEN /\ check' = CalcReply("update", current_user, calc_id, 400,
                                      "Invalid calculation id format.", {})
                /\ UNCHANGED calculations
           ELSE IF found = {}
           THEN /\ check' = CalcReply("update", current_user, calc_id, 404,
                                      "Calculation not found.", {})
                /\ UNCHANGED calculations
           ELSE LET calculation == CHOOSE c \in found : TRUE
                    updated == IF inputs = NoInputs THEN calculation
                               ELSE [calculation EXCEPT !.inputs = inputs,
                                                        !.result = get_result(inputs)]
                IN  /\ calculations' = (calculations \ {calculation}) \cup {updated}
                    /\ check' = CalcReply("update", current_user, calc_id, 200, "",
                                          {updated})
    /\ UNCHANGED <<settings, now, ticks, issued, nextJti, blacklist, users, last,
                   failed, calls, accounts, reply, hashes>>

\* DELETE /calculations/{calc_id}.
DeleteCalculation(current_user, calc_id) ==
    LET found == FindCalculation(calc_id, current_user)
    IN  /\ IF calc_id = NotAUuid
           THEN /\ check' = CalcReply("delete", current_user, calc_id, 400,
                                      "Invalid calculation id format.", {})
                /\ UNCHANGED calculations
           ELSE IF found = {}
           THEN /\ check' = CalcReply("delete", current_user, calc_id, 404,
                                      "Calculation not found.", {})
                /\ UNCHANGED calculations
           ELSE /\ calculations' = calculations \ found
                /\ check' = CalcReply("delete", current_user, calc_id, 204, "", {})
    /\ UNCHANGED <<settings, now, ticks, issued, nextJti, blacklist, users, last,
                   failed, calls, accounts, reply, hashes>>

NextCalc ==
    \/ \E current_user \in CalcUsers, inputs \in CalcInputs, id \in CalcIds :
          CreateCalculation(current_user, inputs, id)
    \/ \E current_user \in CalcUsers : ListCalculations(current_user)
    \/ \E current_user \in CalcUsers, calc_id \in CalcIds \cup {NotAUuid} :
          GetCalculation(current_user, calc_id)
    \/ \E current_user \in CalcUsers, calc_id \in CalcIds \cup {NotAUuid},
          inputs \in CalcInputs \cup {NoInputs} :
          UpdateCalculation(current_user, calc_id, inputs)
    \/ \E current_user \in CalcUsers, calc_id \in CalcIds \cup {NotAUuid} :
          DeleteCalculation(current_user, calc_id)

SpecCalc == InitCalc /\ [][NextCalc]_vars

(***************************************************************************)
(* Vocabulary of the properties.                                           *)
(***************************************************************************)
\* The last call was decode_token on the token of issue record i.
DecodedIssued(i) == last.op = "decode_token" /\ last.token = i.tok

\* The jti of token tok has an entry in the revocation store.
InStore(tok) == \E e \in blacklist : e.jti = tok.jti

\* A decode_token call with verify_exp true has reported Expired or Revoked
\* for token tok.
HasFailed(tok) == \E f \in failed : f.token = tok

Expired401(res) ==
    res.kind = "http" /\ res.status = 401 /\ res.detail = "Token has expired"

Revoked401(res) ==
    res.kind = "http" /\ res.status = 401 /\ res.detail = "Token has been revoked"

WrongType401(res) ==
    res.kind = "http" /\ res.status = 401 /\ res.detail = "Invalid token type"

BadCredentials401(res) ==
    res.kind = "http" /\ res.status = 401 /\ res.detail = "Could not validate credentials"

(***************************************************************************)
(* C1.  An access token issued by create_token(s, ACCESS) with no TTL      *)
(* override, decoded with expected type ACCESS before its exp while its    *)
(* jti is not in the revocation store (and the store answers the lookup),  *)
(* is accepted, and the payload's sub is str(s).                           *)
(***************************************************************************)
C1_IssuedAccessTokenVerifies ==
    \A i \in issued :
        ( /\ DecodedIssued(i)
          /\ last.token_type = ACCESS
          /\ i.by = "create_token" /\ i.token_type = ACCESS /\ ~i.expires.given
          /\ now < i.tok.exp
          /\ ~InStore(i.tok)
          /\ last.up )
        => /\ last.res.kind = "ok"
           /\ last.res.payload.sub = str(i.user_id)

C1_Witness ==
    \E i \in issued :
        /\ DecodedIssued(i) /\ last.token_type = ACCESS
        /\ i.by = "create_token" /\ i.token_type = ACCESS /\ ~i.expires.given
        /\ i.user_id.isUUID
        /\ 0 < now /\ now < i.tok.exp /\ ~InStore(i.tok) /\ last.up
        /\ last.res.kind = "ok" /\ last.res.payload.sub = "uuid-1"

(***************************************************************************)
(* C2.  While the jti of a token issued by create_token with type T is in  *)
(* the revocation store, a decode_token(token, T) call made before the     *)
(* token's exp (the store answering) is rejected with 401 "Token has been  *)
(* revoked" and returns no payload.                                        *)
(***************************************************************************)
C2_RevokedBeforeExpiryIsRevoked ==
    \A i \in issued :
        ( /\ DecodedIssued(i)
          /\ i.by = "create_token" /\ last.token_type = i.token_type
          /\ InStore(i.tok)
          /\ now < i.tok.exp
          /\ last.up )
        => Revoked401(last.res) /\ last.res.payload = NoToken

C2_Witness ==
    \E i \in issued :
        /\ DecodedIssued(i)
        /\ i.by = "create_token" /\ last.token_type = i.token_type
        /\ i.token_type = REFRESH
        /\ InStore(i.tok) /\ 0 < now /\ now < i.tok.exp /\ last.up
        /\ Revoked401(last.res)

(***************************************************************************)
(* C3.  A verification with expiry checking (decode_token with verify_exp  *)
(* true, decode_access_token) of a token whose signature is valid under    *)
(* the secret the call selects, made after the token's exp, is rejected    *)
(* with 401 "Token has expired", whether or not the jti is revoked.        *)
(***************************************************************************)
C3_ExpiredReportsExpired ==
    /\ ( /\ last.op = "decode_token" /\ last.verify_exp
         /\ last.token.wf /\ last.token.key = SecretFor(last.token_type)
         /\ last.token.exp < now )
       => Expired401(last.res)
    /\ ( /\ last.op = "decode_access_token"
         /\ last.token.wf /\ last.token.key = settings.SECRET_KEY
         /\ last.token.exp < now )
       => Expired401(last.res)

C3_Witness ==
    /\ last.op = "decode_token" /\ last.verify_exp
    /\ last.token.wf /\ last.token.key = SecretFor(last.token_type)
    /\ last.token.type = last.token_type
    /\ last.token.iat < last.token.exp
    /\ last.token.exp < now
    /\ InStore(last.token)
    /\ Expired401(last.res)

(***************************************************************************)
(* C4 as stated.  While the jti of an issued token is in the revocation    *)
(* store, every decode_token call for it with its own type reports         *)
(* Revoked, calls after the token's exp included.                          *)
(***************************************************************************)
C4_RevokedUntilPurged ==
    \A i \in issued :
        ( /\ DecodedIssued(i)
          /\ i.by = "create_token" /\ last.token_type = i.token_type
          /\ InStore(i.tok)
          /\ last.up )
        => Revoked401(last.res)

(***************************************************************************)
(* C4 amended.  While the jti of an issued token is in the revocation      *)
(* store, a decode_token call for it with its own type reports Revoked     *)
(* when made no later than the token's exp or with verify_exp false, and   *)
(* reports Expired when made after the exp with verify_exp true.           *)
(***************************************************************************)
C4_RevokedUntilExpiry ==
    \A i \in issued :
        ( /\ DecodedIssued(i)
          /\ i.by = "create_token" /\ last.token_type = i.token_type
          /\ InStore(i.tok)
          /\ last.up )
        => IF last.verify_exp /\ i.tok.exp < now
           THEN Expired401(last.res)
           ELSE Revoked401(last.res)

C4_Witness ==
    \E i \in issued :
        /\ DecodedIssued(i)
        /\ i.by = "create_token" /\ last.token_type = i.token_type
        /\ InStore(i.tok) /\ last.up
        /\ last.verify_exp /\ i.tok.iat < i.tok.exp /\ i.tok.exp < now
        /\ Expired401(last.res)

(***************************************************************************)
(* C5 as stated.  Once a decode_token call with verify_exp true has        *)
(* reported Expired or Revoked for a token, no later decode_token call     *)
(* for that token returns a payload.                                       *)
(***************************************************************************)
C5_NoReturnToActive ==
    (last.op = "decode_token" /\ HasFailed(last.token)) => last.res.kind # "ok"

(***************************************************************************)
(* C5 amended.  Once a decode_token call with verify_exp true has reported *)
(* Expired or Revoked for a token, no later decode_token call with         *)
(* verify_exp true for that token returns a payload.                       *)
(***************************************************************************)
C5_NoReturnToActiveWithExpiryCheck ==
    (last.op = "decode_token" /\ last.verify_exp /\ HasFailed(last.token))
    => last.res.kind # "ok"

\* A token once reported Revoked, whose entry has since been purged, is
\* decoded again with verify_exp true.
C5_Witness ==
    /\ last.op = "decode_token" /\ last.verify_exp
    /\ [token |-> last.token, detail |-> "Token has been revoked"] \in failed
    /\ last.token.type = last.token_type
    /\ ~InStore(last.token)
    /\ Expired401(last.res)

(***************************************************************************)
(* C6.  decode_token(token, T) never returns a payload whose type claim    *)
(* is missing or differs from T.                                           *)
(***************************************************************************)
C6_ReturnedTypeMatches ==
    (last.op = "decode_token" /\ last.res.kind = "ok")
    => last.res.payload.type = last.token_type

\* A token whose signature is valid under the secret selected for T but
\* whose type claim is not T is presented and rejected.
C6_Witness ==
    /\ last.op = "decode_token"
    /\ last.token.wf /\ last.token.key = SecretFor(last.token_type)
    /\ last.token.type # last.token_type
    /\ last.token.exp >= now
    /\ WrongType401(last.res)

(***************************************************************************)
(* C7 as stated.  An access token issued by create_token, decoded with     *)
(* expected type REFRESH, fails with 401 "Invalid token type" under every  *)
(* configuration of the two secrets.                                       *)
(***************************************************************************)
C7_AccessAsRefreshIsWrongType ==
    \A i \in issued :
        ( /\ DecodedIssued(i) /\ last.token_type = REFRESH
          /\ i.by = "create_token" /\ i.token_type = ACCESS )
        => WrongType401(last.res)

(***************************************************************************)
(* C7 amended.  An access token issued by create_token, decoded with       *)
(* expected type REFRESH, always fails with a 401: "Could not validate     *)
(* credentials" when the refresh secret differs from the access secret;    *)
(* when the two secrets are equal, "Token has expired" if expiry is        *)
(* checked and the exp has passed, "Invalid token type" otherwise.         *)
(***************************************************************************)
C7_AccessAsRefreshFails ==
    \A i \in issued :
        ( /\ DecodedIssued(i) /\ last.token_type = REFRESH
          /\ i.by = "create_token" /\ i.token_type = ACCESS )
        => IF settings.JWT_REFRESH_SECRET_KEY # settings.JWT_SECRET_KEY
           THEN BadCredentials401(last.res)
           ELSE IF last.verify_exp /\ i.tok.exp < now
           THEN Expired401(last.res)
           ELSE WrongType401(last.res)

C7_Witness ==
    \E i \in issued :
        /\ DecodedIssued(i) /\ last.token_type = REFRESH
        /\ i.by = "create_token" /\ i.token_type = ACCESS
        /\ settings.JWT_REFRESH_SECRET_KEY # settings.JWT_SECRET_KEY
        /\ i.tok.exp >= now
        /\ BadCredentials401(last.res)

(***************************************************************************)
(* C8 as stated.  No verification operation (decode_token,                 *)
(* decode_access_token) returns a payload without having asked the         *)
(* revocation store about the token's jti in that call.                    *)
(***************************************************************************)
C8_PayloadOnlyAfterStoreLookup ==
    (last.op \in {"decode_token", "decode_access_token"} /\ last.res.kind = "ok")
    => last.res.consulted

(***************************************************************************)
(* C9.  When the revocation-store lookup fails, decode_token returns no    *)
(* payload and get_current_user returns no user and answers 401: a call    *)
(* made while the store does not answer never succeeds.                    *)
(***************************************************************************)
C9_StoreFailureFailsClosed ==
    /\ (last.op = "decode_token" /\ ~last.up)
       => last.res.kind # "ok" /\ last.res.payload = NoToken
    /\ (last.op = "get_current_user" /\ ~last.up)
       => /\ last.res.kind = "http" /\ last.res.status = 401
          /\ last.res.user = NoUser

\* A token that would be accepted with the store up is presented to
\* get_current_user while the lookup fails.
C9_Witness ==
    /\ last.op = "get_current_user" /\ ~last.up
    /\ last.res.consulted
    /\ last.res.detail = "StoreUnavailable"
    /\ get_current_user(last.token, TRUE).kind = "ok"

(***************************************************************************)
(* C10.  get_current_user returns a user only if decode_token accepts the  *)
(* token with expected type ACCESS, the returned user is the stored user   *)
(* whose id is the payload's sub, and that user is active; the token is    *)
(* then an access token.                                                   *)
(***************************************************************************)
C10_CurrentUserIsActiveSubject ==
    (last.op = "get_current_user" /\ last.res.kind = "ok")
    => /\ decode_token(last.token, ACCESS, TRUE, last.up).kind = "ok"
       /\ last.token.type = ACCESS
       /\ last.res.user \in users
       /\ UuidText[last.res.user.id] = last.token.sub
       /\ last.res.user.is_active

\* A token naming the inactive user is decoded successfully and still
\* yields no user.
C10_Witness ==
    /\ last.op = "get_current_user"
    /\ decode_token(last.token, ACCESS, TRUE, last.up).kind = "ok"
    /\ last.token.sub = "uuid-2"
    /\ last.res.kind = "http" /\ last.res.user = NoUser


(***************************************************************************)
(* C11.  Every failure of get_current_user (the token rejected for any     *)
(* reason, an exception that is no HTTPException, the user absent, the     *)
(* user inactive) reaches the caller as an HTTPException with status 401.  *)
(***************************************************************************)
C11_CurrentUserFailuresAre401 ==
    (last.op = "get_current_user" /\ last.res.kind # "ok")
    => last.res.kind = "http" /\ last.res.status = 401

\* The token is accepted and names no stored user: the 404 raised inside
\* the handler reaches the caller as a 401.
C11_Witness ==
    /\ last.op = "get_current_user"
    /\ decode_token(last.token, ACCESS, TRUE, last.up).kind = "ok"
    /\ FindUserById(last.token.sub) = NoUser
    /\ last.res.kind = "http" /\ last.res.status = 401
    /\ last.res.detail = "404: User not found"


(***************************************************************************)
(* C14 as stated.  create_token sets exp to the issue time plus            *)
(* expires_delta for every supplied expires_delta, a zero duration         *)
(* included, and to the issue time plus the default of the token type      *)
(* only when none is supplied; create_access_token does the same with      *)
(* expires_minutes and the access default.                                 *)
(***************************************************************************)
C14_ExpIsIssueTimePlusOverride ==
    \A i \in issued :
        i.tok.exp =
            IF i.expires.given THEN i.tok.iat + i.expires.v
            ELSE IF i.by = "create_token" /\ i.token_type = REFRESH
                 THEN i.tok.iat + timedelta_days(REFRESH_TOKEN_EXPIRE_DAYS)
                 ELSE i.tok.iat + timedelta_minutes(ACCESS_TOKEN_EXPIRE_MINUTES)

(***************************************************************************)
(* C15 as stated.  Every token produced by create_token or                 *)
(* create_access_token, whatever TTL override was passed (zero and         *)
(* negative durations included), carries an exp greater than its iat.      *)
(***************************************************************************)
C15_ExpAfterIat ==
    \A i \in issued : i.tok.exp > i.tok.iat


(***************************************************************************)
(* C12.  A step that adds the jti of an issued token A to the revocation   *)
(* store leaves the outcome of decode_token and of get_current_user        *)
(* unchanged for every other issued token B whose jti differs from A's,    *)
(* whatever the expected type, the expiry flag and the store's             *)
(* availability, and also when A and B name the same subject.              *)
(***************************************************************************)
C12_RevocationLeavesOtherTokensAlone ==
    [][ \A a \in issued :
           (~InStore(a.tok) /\ InStore(a.tok)') =>
              \A b \in issued :
                 b.tok.jti # a.tok.jti =>
                    /\ \A token_type \in TokenType, verify_exp \in BOOLEAN, up \in BOOLEAN :
                          decode_token(b.tok, token_type, verify_exp, up)'
                             = decode_token(b.tok, token_type, verify_exp, up)
                    /\ \A up \in BOOLEAN :
                          get_current_user(b.tok, up)' = get_current_user(b.tok, up)
      ]_vars

\* A is revoked and reported so, B of the same subject and type was issued
\* as well and the last call accepted it.
C12_Witness ==
    \E a \in issued, b \in issued :
        /\ a.tok.jti # b.tok.jti
        /\ a.tok.sub = b.tok.sub
        /\ a.tok.type = b.tok.type
        /\ InStore(a.tok) /\ ~InStore(b.tok)
        /\ \E f \in failed : f.token = a.tok /\ f.detail = "Token has been revoked"
        /\ DecodedIssued(b)
        /\ last.res.kind = "ok"
        /\ last.res.payload.jti = b.tok.jti


(***************************************************************************)
(* C13 as stated.  With verification calls interleaved with additions to   *)
(* the revocation store, every decode_token / get_current_user call for a  *)
(* token of the expected type that started when the token's jti was        *)
(* already in the store and no later than the token's exp, and whose       *)
(* lookup the store answered, is rejected as Revoked.  (That a lookup sees *)
(* the jti as present or absent, nothing in between, is the atomic Lookup  *)
(* step.)                                                                  *)
(***************************************************************************)
C13_StartedAfterRevocationIsRevoked ==
    \A c \in CallIds :
        (/\ calls[c].pc = "done"
         /\ calls[c].revokedAtStart
         /\ calls[c].answered
         /\ calls[c].t0 <= calls[c].token.exp)
        => /\ calls[c].res.kind = "http"
           /\ calls[c].res.status = 401
           /\ calls[c].res.detail =
                 IF calls[c].op = "decode_token" THEN "Token has been revoked"
                 ELSE "401: Token has been revoked"


(***************************************************************************)
(* Vocabulary of the registration and login properties.                    *)
(***************************************************************************)
\* Account a is the one the identifier names.
Names(identifier, a) == a.username = identifier \/ a.email = identifier

\* Account a was registered with this password.
RegisteredWith(a, password) ==
    a.password = hash_password(password, a.password.salt)

\* What the client sees of a reply.
Response(r) ==
    [status |-> r.status, detail |-> r.detail, access_token |-> r.access_token,
     refresh_token |-> r.refresh_token]

Rejection(status, detail) ==
    [status |-> status, detail |-> detail, access_token |-> NoToken,
     refresh_token |-> NoToken]

(***************************************************************************)
(* C17.  A login with the username or the email of a user created by       *)
(* register, and with the password it registered with, answers 200 with an *)
(* access and a refresh token of that user; get_current_user on that       *)
(* access token, no later than its exp, while its jti is not in the        *)
(* revocation store and the store answers, returns that user, with         *)
(* is_active true.                                                         *)
(***************************************************************************)
C17_RegisterLoginResolve ==
    /\ reply.op = "login" =>
          \A a \in accounts :
              (Names(reply.identifier, a) /\ RegisteredWith(a, reply.password)) =>
                  /\ reply.status = 200
                  /\ reply.user_id = a.id
                  /\ \E i \in issued : i.tok = reply.access_token /\ i.tok.type = ACCESS
                  /\ \E i \in issued : i.tok = reply.refresh_token /\ i.tok.type = REFRESH
    /\ (/\ reply.op = "login" /\ reply.status = 200
        /\ last.op = "get_current_user" /\ last.token = reply.access_token
        /\ last.up
        /\ now <= reply.access_token.exp
        /\ ~InStore(reply.access_token))
       => last.res = OkUser([id |-> reply.user_id, is_active |-> TRUE])

C17_Witness ==
    /\ reply.op = "login" /\ reply.status = 200
    /\ reply.identifier \in Usernames
    /\ \E a \in accounts : a.username = reply.identifier /\ a.id = reply.user_id
    /\ last.op = "get_current_user" /\ last.token = reply.access_token
    /\ last.res = OkUser([id |-> reply.user_id, is_active |-> TRUE])

(***************************************************************************)
(* C18.  A register request with the email of a stored user, or with the   *)
(* username of a stored user, is answered 400 ("Email already exists",     *)
(* else "Username already exists"), hands out no token, and leaves the     *)
(* stored users and the issued tokens as they were.                        *)
(***************************************************************************)
C18_DuplicateRegisterRejected ==
    [][ \A user_create \in UserCreates, id \in UUIDs, salt \in Salts :
           (/\ Register(user_create, id, salt)
            /\ \E a \in accounts : \/ a.email = user_create.email
                                   \/ a.username = user_create.username)
           => /\ Response(reply') =
                    Rejection(400, IF \E a \in accounts : a.email = user_create.email
                                   THEN "Email already exists"
                                   ELSE "Username already exists")
              /\ accounts' = accounts
              /\ users' = users
              /\ issued' = issued
      ]_vars

\* A request with a fresh email and the username of a stored user was refused.
C18_Witness ==
    /\ reply.op = "register" /\ reply.status = 400
    /\ reply.detail = "Username already exists"
    /\ \A a \in accounts : a.email # reply.identifier
    /\ Cardinality(accounts) = 1
    /\ Cardinality(issued) = 2

(***************************************************************************)
(* C20.  A login_json request whose identifier names no stored user, and   *)
(* one whose identifier names a stored user but whose password is not the  *)
(* one that user registered with, get the same response: 401 with detail   *)
(* "Invalid credentials" and no token; no token is issued.                 *)
(***************************************************************************)
C20_RejectedLoginsAlike ==
    [][ \A identifier \in Identifiers, password \in Passwords :
           (/\ Login(identifier, password)
            /\ \/ ~ \E a \in accounts : Names(identifier, a)
               \/ \E a \in accounts : Names(identifier, a) /\ ~RegisteredWith(a, password))
           => /\ Response(reply') = Rejection(401, "Invalid credentials")
              /\ issued' = issued
      ]_vars

\* The identifier named a stored user and the password was wrong.
C20_Witness ==
    /\ reply.op = "login" /\ reply.status = 401
    /\ reply.detail = "Invalid credentials"
    /\ \E a \in accounts : Names(reply.identifier, a) /\ ~RegisteredWith(a, reply.password)


(***************************************************************************)
(* C24.  decode_token checks the signature, then expiry (when verify_exp), *)
(* then the type claim, then the revocation store, and stops at the first  *)
(* failure: the call reports the earliest check that fails, and a call     *)
(* that fails the signature, expiry or type check has not queried the      *)
(* store.                                                                  *)
(***************************************************************************)
C24_ChecksInOrder ==
    last.op = "decode_token" =>
        LET badSignature == ~last.token.wf \/ last.token.key # SecretFor(last.token_type)
            expired == last.verify_exp /\ last.token.exp < now
            wrongType == last.token.type # last.token_type
        IN  /\ badSignature => BadCredentials401(last.res) /\ ~last.res.consulted
            /\ (~badSignature /\ expired) => Expired401(last.res) /\ ~last.res.consulted
            /\ (~badSignature /\ ~expired /\ wrongType)
                  => WrongType401(last.res) /\ ~last.res.consulted
            /\ (~badSignature /\ ~expired /\ ~wrongType /\ last.token.jti # 0 /\ last.up)
                  => /\ last.res.consulted
                     /\ IF InStore(last.token) THEN Revoked401(last.res)
                        ELSE last.res.kind = "ok"

\* An expired, revoked token presented with the wrong expected type, under a
\* configuration where both types share the secret: three checks fail and
\* expiry is the one reported.
C24_Witness ==
    /\ last.op = "decode_token"
    /\ last.token.wf /\ last.token.key = SecretFor(last.token_type)
    /\ last.verify_exp /\ last.token.exp < now
    /\ last.token.iat < last.token.exp
    /\ last.token.type # last.token_type
    /\ InStore(last.token)
    /\ Expired401(last.res) /\ ~last.res.consulted

(***************************************************************************)
(* C25 as stated.  Whatever token is presented (malformed, wrongly signed, *)
(* expired, wrongly typed, revoked, or correctly signed without a jti      *)
(* claim), decode_token, with the store answering, returns the payload or  *)
(* raises an HTTPException with status 401; no other error leaves it.      *)
(***************************************************************************)
C25_OnlyPayloadOr401 ==
    (last.op = "decode_token" /\ last.up)
    => \/ last.res.kind = "ok"
       \/ last.res.kind = "http" /\ last.res.status = 401

(***************************************************************************)
(* C26 as stated.  Any two rejections by get_current_user, whatever their  *)
(* causes (bad signature, expired, wrong type, revoked, user absent, user  *)
(* inactive), carry the same status code and the same detail.              *)
(***************************************************************************)
C26_RejectionsAlike ==
    \A t1 \in Presentable, t2 \in Presentable :
        LET r1 == get_current_user(t1, TRUE)
            r2 == get_current_user(t2, TRUE)
        IN  (r1.kind # "ok" /\ r2.kind # "ok")
            => r1.status = r2.status /\ r1.detail = r2.detail

(***************************************************************************)
(* C27.  decode_token with verify_exp false skips the expiry check and     *)
(* nothing else: for a correctly signed token of an issued jti and with    *)
(* the store answering, a wrong type claim is reported as "Invalid token   *)
(* type", a jti in the revocation store as "Token has been revoked", and   *)
(* otherwise the payload is returned, also when the token is past its exp. *)
(***************************************************************************)
C27_OnlyExpirySkipped ==
    (/\ last.op = "decode_token" /\ ~last.verify_exp /\ last.up
     /\ last.token.wf /\ last.token.key = SecretFor(last.token_type)
     /\ last.token.jti # 0)
    => IF last.token.type # last.token_type THEN WrongType401(last.res)
       ELSE IF InStore(last.token) THEN Revoked401(last.res)
       ELSE last.res = Ok(last.token, TRUE)

\* A token past its exp was accepted.
C27_Witness ==
    /\ last.op = "decode_token" /\ ~last.verify_exp
    /\ \E i \in issued : i.tok = last.token /\ i.by = "create_token"
    /\ last.token.iat < last.token.exp
    /\ last.token.exp < now
    /\ last.res = Ok(last.token, TRUE)


(***************************************************************************)
(* C28.  decode_token, decode_access_token and get_current_user only read: *)
(* every step of such a call (its start, the answer of the store lookup,   *)
(* its failure, its being abandoned while suspended) leaves the contents   *)
(* of the revocation store and the user records as they were.              *)
(***************************************************************************)
C28_VerificationIsReadOnly ==
    [][ (\/ calls' # calls
         \/ last' # last /\ last'.op = "decode_access_token")
        => /\ blacklist' = blacklist
           /\ users' = users
           /\ accounts' = accounts
      ]_vars

\* One call was abandoned at the lookup of a revoked token, another ran to
\* its end and reported the revocation.
C28_Witness ==
    \E c \in CallIds, d \in CallIds :
        /\ calls[c].pc = "abandoned"
        /\ calls[d].pc = "done"
        /\ calls[d].token = calls[c].token
        /\ Revoked401(calls[d].res)
        /\ InStore(calls[c].token)


(***************************************************************************)
(* C21 as stated.  For all plain texts p and q, verify_password(p,        *)
(* hash_password(q)) is true if and only if p = q.                         *)
(***************************************************************************)
C21_VerifiesIffSamePlainText ==
    check.op = "verify_password" =>
        \A h \in hashes :
            h.hashed = check.hashed =>
                /\ check.res.raised = ""
                /\ check.res.value <=> (check.plain = h.plain)

(***************************************************************************)
(* C22 as stated.  verify_password(plain, hashed) returns false and raises *)
(* nothing for every hashed that is not a well-formed hash made by         *)
(* hash_password: the empty string, a truncated hash, a string of an       *)
(* unknown scheme.                                                         *)
(***************************************************************************)
C22_MalformedHashIsFalse ==
    (check.op = "verify_password" /\ check.hashed \in MalformedHashes)
    => check.res.raised = "" /\ ~check.res.value


(***************************************************************************)
(* Vocabulary of the form validation properties.                           *)
(***************************************************************************)
\* The four rules the claim names.
StrongPassword(v) ==
    /\ Len(v) >= 8
    /\ \E i \in 1..Len(v) : SubSeq(v, i, i) \in UpperCase
    /\ \E i \in 1..Len(v) : SubSeq(v, i, i) \in LowerCase
    /\ \E i \in 1..Len(v) : SubSeq(v, i, i) \in Digits

ConfirmAgrees(password, confirm_password) ==
    ~confirm_password.given \/ confirm_password.v = password

(***************************************************************************)
(* C23 as stated.  UserRegister accepts a password / confirm_password pair *)
(* if and only if the password has at least 8 characters, an uppercase     *)
(* letter, a lowercase letter and a digit, and confirm_password is absent  *)
(* or equal to the password.                                               *)
(***************************************************************************)
C23_AcceptedIffStrongAndConfirmed ==
    check.op = "UserRegister" =>
        (check.res.ok <=> /\ StrongPassword(check.password)
                          /\ ConfirmAgrees(check.password, check.confirm_password))

(***************************************************************************)
(* C23, amended.  UserRegister accepts a password / confirm_password pair  *)
(* if and only if the password has at least 8 and at most 128 characters,  *)
(* an uppercase letter, a lowercase letter and a digit, and                *)
(* confirm_password is absent or equal to the password; every other pair   *)
(* is rejected with a validation error.                                    *)
(***************************************************************************)
C23_AcceptedIffStrongBoundedAndConfirmed ==
    check.op = "UserRegister" =>
        /\ check.res.ok <=> /\ StrongPassword(check.password)
                            /\ Len(check.password) <= 128
                            /\ ConfirmAgrees(check.password, check.confirm_password)
        /\ ~check.res.ok => check.res.error # ""

\* A password that keeps the four rules was refused for its length.
C23_Witness ==
    /\ check.op = "UserRegister"
    /\ StrongPassword(check.password)
    /\ ~check.confirm_password.given
    /\ Len(check.password) > 128
    /\ ~check.res.ok
    /\ check.res.error = "string_too_long"


(***************************************************************************)
(* C30 as stated.  The expires_at of login_json's response is the          *)
(* expires_at that User.authenticate returned whenever it returned one     *)
(* (made UTC when naive, as it is when timezone-aware), and is the clock   *)
(* plus ACCESS_TOKEN_EXPIRE_MINUTES only when it returned none.            *)
(***************************************************************************)
C30_ResponseExpiresAtIsAuthenticates ==
    check.op = "login_expires_at" =>
        check.res =
            IF check.expires_at.given
            THEN Datetime(TRUE, check.expires_at.t)
            ELSE Datetime(TRUE, check.now + timedelta_minutes(ACCESS_TOKEN_EXPIRE_MINUTES))


(***************************************************************************)
(* C29.  Every calculation request, made as user U: leaves each            *)
(* calculation of another user as it was; returns only calculations whose  *)
(* user_id is U; answers 404 when it is a get, update or delete of a       *)
(* calculation of another user; and gives every calculation it creates     *)
(* the user_id U.                                                          *)
(***************************************************************************)
C29_CalculationsStayWithTheirUser ==
    [][ LET U == check'.user
        IN  /\ {c \in calculations' : c.user_id # U} = {c \in calculations : c.user_id # U}
            /\ \A c \in check'.body : c.user_id = U
            /\ (/\ check'.op \in {"get", "update", "delete"}
                /\ \E c \in calculations : c.id = check'.calc_id /\ c.user_id # U)
               => check'.status = 404 /\ check'.body = {}
            /\ \A c \in calculations' \ calculations : c.user_id = U
      ]_vars

\* An update aimed at another user's calculation was answered 404 and the
\* calculation is still there.
C29_Witness ==
    /\ check.op = "update" /\ check.status = 404
    /\ \E c \in calculations : c.id = check.calc_id /\ c.user_id # check.user
    /\ \E c \in calculations : c.user_id = check.user

====
